---- MODULE Spec2Model ----
(***************************************************************************)
(* Model of backend/api/hos_logic.py: HOSCalculator.calculate_route and    *)
(* the helpers it calls.                                                   *)
(*                                                                         *)
(* Numbers.  The code computes with floats; the model computes with        *)
(* integers on a grid on which every quantity of the code is exact:        *)
(*   - distances are whole miles;                                          *)
(*   - times and hour counters are ticks of 1/110 hour, so that            *)
(*     distance / 55.0 hours is exactly 2 * distance ticks, and            *)
(*     0.5 h = 55 ticks, 1 h = 110 ticks.                                  *)
(* Geography.  All resolved coordinates lie on one meridian, and a         *)
(* location's "pos" is its latitude measured in miles of arc (3959 *       *)
(* radians).  On a meridian the haversine distance of two points is the    *)
(* absolute difference of their pos, and the linear interpolation of       *)
(* latitude is the linear interpolation of pos.  The arc is measured from  *)
(* the parallel 1000 miles south of the geocoder's default coordinate.     *)
(***************************************************************************)
EXTENDS Integers, Sequences, FiniteSets, TLC

VARIABLES
    pc,                   \* position inside calculate_route
    current_location,     \* argument: place-name string
    pickup_location,      \* argument: place-name string
    dropoff_location,     \* argument: place-name string
    current_cycle_used,   \* self.current_cycle_used (ticks)
    location_cache,       \* self.location_cache: place name -> Location
    current_loc,          \* local of calculate_route
    pickup_loc,           \* local of calculate_route
    dropoff_loc,          \* local of calculate_route
    distance_to_pickup,   \* local of calculate_route (miles)
    distance_pickup_to_dropoff,  \* local of calculate_route (miles)
    total_distance,       \* RouteDetails.total_distance (miles)
    fueling_stops,        \* RouteDetails.fueling_stops
    duty_schedule,        \* RouteDetails.duty_schedule
    violations,           \* RouteDetails.violations
    total_time,           \* RouteDetails.total_time (ticks)
    geocode_log,          \* the calls of geocode_location made by this calculator
    summary,              \* what get_duty_status_summary returned
    request,              \* request.data of the view being served
    response,             \* the Response the view returned
    previous              \* the preceding calculate_hos_route call and its result

\* What the engine never writes: the caller's side of a call.
caller_vars == <<summary, request, response, previous>>

vars == <<pc, current_location, pickup_location, dropoff_location,
          current_cycle_used, location_cache, current_loc, pickup_loc,
          dropoff_loc, distance_to_pickup, distance_pickup_to_dropoff,
          total_distance, fueling_stops, duty_schedule, violations,
          total_time, geocode_log, caller_vars>>

----------------------------------------------------------------------------
(* Bounds of the model                                                     *)

\* Resolved positions are 0, 250, ..., MaxPos * 250 miles along the meridian.
MaxPos == 10

Positions == {k * 250 : k \in 0..MaxPos}

----------------------------------------------------------------------------
(* Program constants                                                       *)

\* _calculate_drive_time: average speed, miles per hour
SPEED_MPH == 55

\* ticks per hour: one tick is the time to drive half a mile
TicksPerHour == 2 * SPEED_MPH

MAX_DRIVING_HOURS == 11 * TicksPerHour
MAX_DUTY_HOURS == 14 * TicksPerHour
MIN_OFF_DUTY_HOURS == 10 * TicksPerHour
BREAK_THRESHOLD == 8 * TicksPerHour
BREAK_DURATION == TicksPerHour \div 2
FUELING_INTERVAL == 1000
PICKUP_TIME == 1 * TicksPerHour
DROPOFF_TIME == 1 * TicksPerHour
MAX_70_HOUR_WINDOW == 70 * TicksPerHour

\* timedelta(minutes=30) and the literal 0.5 of the fuel-stop step
FUEL_DWELL == TicksPerHour \div 2

----------------------------------------------------------------------------
(* Inputs                                                                  *)

\* Place-name strings of a request. The three arguments may coincide.
CurrentNames == {"A"}
PickupNames == {"A", "B"}
DropoffNames == {"A", "B", "C"}

\* current_cycle_used in [0, 70] hours, in ticks: 0 h, 8 h less a 250-mile
\* drive, 11 h less a 250-mile drive, 8 h, 11 h, 12 h, 14 h, 70 h.
CycleValues == {0,
                8 * TicksPerHour - 500,
                11 * TicksPerHour - 500,
                8 * TicksPerHour,
                11 * TicksPerHour,
                12 * TicksPerHour,
                14 * TicksPerHour,
                70 * TicksPerHour}

\* datetime.now() at the start of _generate_duty_schedule (ticks)
NowValues == {0, 1000}

----------------------------------------------------------------------------
(* Data model                                                              *)

\* finite: the latitude is a finite float (float() also parses "inf")
Location(name, pos) == [name |-> name, pos |-> pos, finite |-> TRUE]

NonFiniteLocation(name) == [name |-> name, pos |-> 0, finite |-> FALSE]

NoLocation == Location("", 0)

RoutePoint(location, arrival_time, departure_time, status, miles_from_start, cumulative_driving_hours, cumulative_duty_hours) ==
    [location |-> location,
     arrival_time |-> arrival_time,
     departure_time |-> departure_time,
     status |-> status,
     miles_from_start |-> miles_from_start,
     cumulative_driving_hours |-> cumulative_driving_hours,
     cumulative_duty_hours |-> cumulative_duty_hours]

\* Nothing returned yet by get_duty_status_summary
NoSummary == << >>

\* A text field of request.data: absent, or given with its text
TextField(given, text) == [given |-> given, text |-> text]

\* The cycle-hours field of request.data: absent, given with something that
\* is no number, or given as a number (in ticks)
CycleField(kind, value) == [kind |-> kind, value |-> value]

\* No request being served
NoRequest ==
    [endpoint |-> "",
     current_location |-> TextField(FALSE, ""),
     pickup_location |-> TextField(FALSE, ""),
     dropoff_location |-> TextField(FALSE, ""),
     cycle |-> CycleField("missing", 0)]

\* A Response: its status, what its body is, and the schedule and violations
\* the body carries
HttpResponse(status, kind, schedule, messages) ==
    [status |-> status, kind |-> kind, duty_schedule |-> schedule,
     violations |-> messages]

\* No Response returned yet
NoResponse == HttpResponse(0, "", <<>>, <<>>)

\* No preceding call
NoPrevious ==
    [called |-> FALSE, location_cache |-> << >>, total_distance |-> 0,
     total_time |-> 0, fueling_stops |-> <<>>, duty_schedule |-> <<>>,
     violations |-> <<>>]

----------------------------------------------------------------------------
(* Geo math                                                                *)

Abs(x) == IF x < 0 THEN -x ELSE x

\* Haversine distance of two points of one meridian, in miles.
CalculateDistance(loc1, loc2) == Abs(loc2.pos - loc1.pos)

\* distance / 55.0 hours, in ticks (exact: two ticks per mile).
CalculateDriveTime(distance) == (distance * TicksPerHour) \div SPEED_MPH

\* f"Fuel Stop at {lat:.2f}, {lon:.2f}"
FuelStopName(pos) == "Fuel Stop at " \o ToString(pos)

\* progress is the fraction num / den
InterpolateLocation(start, end, num, den) ==
    LET pos == start.pos + ((end.pos - start.pos) * num) \div den
    IN  Location(FuelStopName(pos), pos)

----------------------------------------------------------------------------
(* Waypoint resolver: geocode_location                                     *)

\* The default coordinate (40.7128, -74.0060), in miles along the meridian
DEFAULT_POS == 1000

\* The Location built from what geocode_location returns: the coordinates of
\* the first result, or the default coordinate on an empty result and on
\* every exception of the try block.
GeocodeLocation(location_str, outcome) ==
    CASE outcome.kind = "found" -> Location(location_str, outcome.pos)
      [] outcome.kind = "non_finite" -> NonFiniteLocation(location_str)
      [] OTHER -> Location(location_str, DEFAULT_POS)

----------------------------------------------------------------------------
(* Fuel-stop planner: _calculate_fueling_stops                             *)

\* MoreStops with the test made inclusive.
MoreStopsInclusive(miles_so_far, leg_end) ==
    miles_so_far + FUELING_INTERVAL <= leg_end

\* The loop test of both while loops: another full interval fits strictly
\* before the end of the leg.
MoreStops(miles_so_far, leg_end) == miles_so_far + FUELING_INTERVAL < leg_end

\* while loop "Add stops on the way to pickup", entered with miles_so_far
RECURSIVE StopsToPickup(_, _, _, _)
StopsToPickup(current, pickup, dist_to_pickup, miles_so_far) ==
    IF MoreStops(miles_so_far, dist_to_pickup)
    THEN LET miles == miles_so_far + FUELING_INTERVAL
         IN  <<InterpolateLocation(current, pickup, miles, dist_to_pickup)>>
             \o StopsToPickup(current, pickup, dist_to_pickup, miles)
    ELSE <<>>

\* while loop "Add stops from pickup to dropoff", entered with miles_so_far
RECURSIVE StopsToDropoff(_, _, _, _, _)
StopsToDropoff(pickup, dropoff, dist_to_pickup, dist_pickup_to_dropoff, miles_so_far) ==
    IF MoreStops(miles_so_far, dist_to_pickup + dist_pickup_to_dropoff)
    THEN LET miles == miles_so_far + FUELING_INTERVAL
         IN  <<InterpolateLocation(pickup, dropoff, miles - dist_to_pickup,
                                   dist_pickup_to_dropoff)>>
             \o StopsToDropoff(pickup, dropoff, dist_to_pickup,
                               dist_pickup_to_dropoff, miles)
    ELSE <<>>

CalculateFuelingStopsOf(current, pickup, dropoff) ==
    LET dist_to_pickup == CalculateDistance(current, pickup)
        dist_pickup_to_dropoff == CalculateDistance(pickup, dropoff)
    IN  StopsToPickup(current, pickup, dist_to_pickup, 0)
        \o StopsToDropoff(pickup, dropoff, dist_to_pickup,
                          dist_pickup_to_dropoff, dist_to_pickup)

----------------------------------------------------------------------------
(* Duty schedule builder: _add_driving_segment                             *)

\* The running state of _add_driving_segment: segment_points, current_time,
\* current_miles, current_driving, current_duty.
LegState(points, time, miles, driving, duty) ==
    [points |-> points, time |-> time, miles |-> miles,
     driving |-> driving, duty |-> duty]

\* BreakCheck resetting the duty counter in place of the driving counter.
BreakCheckResetsDuty(st, start) ==
    IF st.driving >= BREAK_THRESHOLD
    THEN LET break_start == st.time
             break_end == break_start + BREAK_DURATION
         IN  LegState(Append(st.points,
                             RoutePoint(start, break_start, break_end,
                                        "Off Duty", st.miles, st.driving,
                                        st.duty)),
                      break_end, st.miles, st.driving + BREAK_DURATION, 0)
    ELSE st

\* BreakCheck with the threshold exclusive.
BreakCheckStrict(st, start) ==
    IF st.driving > BREAK_THRESHOLD
    THEN LET break_start == st.time
             break_end == break_start + BREAK_DURATION
         IN  LegState(Append(st.points,
                             RoutePoint(start, break_start, break_end,
                                        "Off Duty", st.miles, st.driving,
                                        st.duty)),
                      break_end, st.miles, 0, st.duty + BREAK_DURATION)
    ELSE st

\* "Check if we need a break during this segment"
BreakCheck(st, start) ==
    IF st.driving >= BREAK_THRESHOLD
    THEN LET break_start == st.time
             break_end == break_start + BREAK_DURATION
         IN  LegState(Append(st.points,
                             RoutePoint(start, break_start, break_end,
                                        "Off Duty", st.miles, st.driving,
                                        st.duty)),
                      break_end, st.miles, 0, st.duty + BREAK_DURATION)
    ELSE st

\* FuelStep with the departure computed from the time of leaving the
\* previous position in place of the arrival at the stop.
FuelStepDepartsFromCurrentTime(st, start, distance, stop) ==
    IF st.miles < distance
    THEN LET stop_distance == CalculateDistance(start, stop)
             time_to_stop == CalculateDriveTime(stop_distance)
             arrival_time == st.time + time_to_stop
             departure_time == st.time + FUEL_DWELL
         IN  LegState(Append(st.points,
                             RoutePoint(stop, arrival_time, departure_time,
                                        "On Duty", st.miles + stop_distance,
                                        st.driving + time_to_stop,
                                        st.duty + time_to_stop + FUEL_DWELL)),
                      departure_time,
                      st.miles + stop_distance,
                      st.driving + time_to_stop,
                      st.duty + time_to_stop + FUEL_DWELL)
    ELSE st

\* One iteration of "for stop in fueling_stops"
FuelStep(st, start, distance, stop) ==
    IF st.miles < distance
    THEN LET stop_distance == CalculateDistance(start, stop)
             time_to_stop == CalculateDriveTime(stop_distance)
             arrival_time == st.time + time_to_stop
             departure_time == arrival_time + FUEL_DWELL
         IN  LegState(Append(st.points,
                             RoutePoint(stop, arrival_time, departure_time,
                                        "On Duty", st.miles + stop_distance,
                                        st.driving + time_to_stop,
                                        st.duty + time_to_stop + FUEL_DWELL)),
                      departure_time,
                      st.miles + stop_distance,
                      st.driving + time_to_stop,
                      st.duty + time_to_stop + FUEL_DWELL)
    ELSE st

RECURSIVE FuelLoop(_, _, _, _)
FuelLoop(st, start, distance, stops) ==
    IF stops = <<>>
    THEN st
    ELSE FuelLoop(FuelStep(st, start, distance, Head(stops)), start, distance,
                  Tail(stops))

\* FinalArrival leaving out the Driving segment when nothing remains to drive.
FinalArrivalSkipsZero(st, end, distance) ==
    LET remaining_distance == distance - st.miles
        remaining_time == CalculateDriveTime(remaining_distance)
        arrival_time == st.time + remaining_time
    IN  IF remaining_distance = 0
        THEN st.points
        ELSE Append(st.points,
                    RoutePoint(end, arrival_time, arrival_time, "Driving",
                               distance, st.driving + remaining_time,
                               st.duty + remaining_time))

\* "Add final arrival at destination"
FinalArrival(st, end, distance) ==
    LET remaining_distance == distance - st.miles
        remaining_time == CalculateDriveTime(remaining_distance)
        arrival_time == st.time + remaining_time
    IN  Append(st.points,
               RoutePoint(end, arrival_time, arrival_time, "Driving", distance,
                          st.driving + remaining_time,
                          st.duty + remaining_time))

AddDrivingSegment(start, end, distance, start_time, cumulative_driving, cumulative_duty, stops) ==
    LET st0 == LegState(<<>>, start_time, 0, cumulative_driving,
                        cumulative_duty)
        st1 == BreakCheck(st0, start)
        st2 == FuelLoop(st1, start, distance, stops)
    IN  FinalArrival(st2, end, distance)

----------------------------------------------------------------------------
(* Duty schedule builder: _generate_duty_schedule                          *)

\* StartPoint with both counters at zero.
StartPointUnseeded(current, current_time, cycle_used) ==
    RoutePoint(current, current_time, current_time, "Off Duty", 0, 0, 0)

StartPointClockSeeded(current, current_time, cycle_used) ==
    RoutePoint(current, current_time, current_time, "Off Duty", 0,
               cycle_used + current_time, cycle_used + current_time)

\* "Start at current location"
StartPoint(current, current_time, cycle_used) ==
    RoutePoint(current, current_time, current_time, "Off Duty", 0, cycle_used,
               cycle_used)

\* PickupPoint without the handling hour in its duty counter.
PickupPointDrivingAsDuty(pickup, arrival_time, departure_time, dist_to_pickup, cumulative_driving, cumulative_duty) ==
    RoutePoint(pickup, arrival_time, departure_time, "On Duty",
               dist_to_pickup, cumulative_driving, cumulative_driving)

\* "Pickup (On Duty Not Driving)"
PickupPoint(pickup, arrival_time, departure_time, dist_to_pickup, cumulative_driving, cumulative_duty) ==
    RoutePoint(pickup, arrival_time, departure_time, "On Duty",
               dist_to_pickup, cumulative_driving, cumulative_duty)

\* "Dropoff (On Duty Not Driving)"
DropoffPoint(dropoff, arrival_time, departure_time, dist_to_pickup, dist_pickup_to_dropoff, cumulative_driving, cumulative_duty) ==
    RoutePoint(dropoff, arrival_time, departure_time, "On Duty",
               dist_to_pickup + dist_pickup_to_dropoff, cumulative_driving,
               cumulative_duty)

\* NeedsOffDuty with both thresholds made strict.
NeedsOffDutyStrict(cumulative_driving, cumulative_duty) ==
    \/ cumulative_driving > MAX_DRIVING_HOURS
    \/ cumulative_duty > MAX_DUTY_HOURS

\* The test of "Add required off-duty time if needed"
NeedsOffDuty(cumulative_driving, cumulative_duty) ==
    \/ cumulative_driving >= MAX_DRIVING_HOURS
    \/ cumulative_duty >= MAX_DUTY_HOURS

\* OffDutyPoint stamped with the last leg's distance in place of the
\* distance from the start of the route.
OffDutyPointLegMiles(dropoff, departure_time, dist_to_pickup, dist_pickup_to_dropoff) ==
    LET off_duty_start == departure_time
        off_duty_end == off_duty_start + MIN_OFF_DUTY_HOURS
    IN  RoutePoint(dropoff, off_duty_start, off_duty_end, "Off Duty",
                   dist_pickup_to_dropoff, 0, 0)

\* The segment appended when the test holds
OffDutyPoint(dropoff, departure_time, dist_to_pickup, dist_pickup_to_dropoff) ==
    LET off_duty_start == departure_time
        off_duty_end == off_duty_start + MIN_OFF_DUTY_HOURS
    IN  RoutePoint(dropoff, off_duty_start, off_duty_end, "Off Duty",
                   dist_to_pickup + dist_pickup_to_dropoff, 0, 0)

\* GenerateDutyScheduleOf with a break in leg 1 resetting the driving counter
\* that the caller carries into leg 2.
GenerateDutyScheduleBreakResetsCarried(current, pickup, dropoff, dist_to_pickup, dist_pickup_to_dropoff, stops, cycle_used, now) ==
    LET current_time == now
        cumulative_driving0 == cycle_used
        cumulative_duty0 == cycle_used
        schedule0 == <<StartPoint(current, current_time, cycle_used)>>
        \* Drive to pickup location
        drive_time1 == CalculateDriveTime(dist_to_pickup)
        arrival_time1 == current_time + drive_time1
        departure_time1 == arrival_time1 + PICKUP_TIME
        schedule1 == schedule0
                     \o AddDrivingSegment(current, pickup, dist_to_pickup,
                                          current_time, cumulative_driving0,
                                          cumulative_duty0, stops)
        cumulative_driving1 == (IF cumulative_driving0 >= BREAK_THRESHOLD
                                THEN 0
                                ELSE cumulative_driving0) + drive_time1
        cumulative_duty1 == cumulative_duty0 + drive_time1 + PICKUP_TIME
        schedule2 == Append(schedule1,
                            PickupPoint(pickup, arrival_time1,
                                        departure_time1, dist_to_pickup,
                                        cumulative_driving1,
                                        cumulative_duty1))
        \* Drive to dropoff location
        drive_time2 == CalculateDriveTime(dist_pickup_to_dropoff)
        arrival_time2 == departure_time1 + drive_time2
        departure_time2 == arrival_time2 + DROPOFF_TIME
        \* departure_time has been reassigned before this call reads it
        schedule3 == schedule2
                     \o AddDrivingSegment(pickup, dropoff,
                                          dist_pickup_to_dropoff,
                                          departure_time2, cumulative_driving1,
                                          cumulative_duty1, <<>>)
        cumulative_driving2 == cumulative_driving1 + drive_time2
        cumulative_duty2 == cumulative_duty1 + drive_time2 + DROPOFF_TIME
        schedule4 == Append(schedule3,
                            DropoffPoint(dropoff, arrival_time2,
                                         departure_time2, dist_to_pickup,
                                         dist_pickup_to_dropoff,
                                         cumulative_driving2,
                                         cumulative_duty2))
    IN  IF NeedsOffDuty(cumulative_driving2, cumulative_duty2)
        THEN Append(schedule4,
                    OffDutyPoint(dropoff, departure_time2, dist_to_pickup,
                                 dist_pickup_to_dropoff))
        ELSE schedule4

\* GenerateDutyScheduleOf with leg 2 started at the departure from pickup.
GenerateDutyScheduleFromPickupDeparture(current, pickup, dropoff, dist_to_pickup, dist_pickup_to_dropoff, stops, cycle_used, now) ==
    LET current_time == now
        cumulative_driving0 == cycle_used
        cumulative_duty0 == cycle_used
        schedule0 == <<StartPoint(current, current_time, cycle_used)>>
        \* Drive to pickup location
        drive_time1 == CalculateDriveTime(dist_to_pickup)
        arrival_time1 == current_time + drive_time1
        departure_time1 == arrival_time1 + PICKUP_TIME
        schedule1 == schedule0
                     \o AddDrivingSegment(current, pickup, dist_to_pickup,
                                          current_time, cumulative_driving0,
                                          cumulative_duty0, stops)
        cumulative_driving1 == cumulative_driving0 + drive_time1
        cumulative_duty1 == cumulative_duty0 + drive_time1 + PICKUP_TIME
        schedule2 == Append(schedule1,
                            PickupPoint(pickup, arrival_time1,
                                        departure_time1, dist_to_pickup,
                                        cumulative_driving1,
                                        cumulative_duty1))
        \* Drive to dropoff location
        drive_time2 == CalculateDriveTime(dist_pickup_to_dropoff)
        arrival_time2 == departure_time1 + drive_time2
        departure_time2 == arrival_time2 + DROPOFF_TIME
        schedule3 == schedule2
                     \o AddDrivingSegment(pickup, dropoff,
                                          dist_pickup_to_dropoff,
                                          departure_time1, cumulative_driving1,
                                          cumulative_duty1, <<>>)
        cumulative_driving2 == cumulative_driving1 + drive_time2
        cumulative_duty2 == cumulative_duty1 + drive_time2 + DROPOFF_TIME
        schedule4 == Append(schedule3,
                            DropoffPoint(dropoff, arrival_time2,
                                         departure_time2, dist_to_pickup,
                                         dist_pickup_to_dropoff,
                                         cumulative_driving2,
                                         cumulative_duty2))
    IN  IF NeedsOffDuty(cumulative_driving2, cumulative_duty2)
        THEN Append(schedule4,
                    OffDutyPoint(dropoff, departure_time2, dist_to_pickup,
                                 dist_pickup_to_dropoff))
        ELSE schedule4

GenerateDutyScheduleOf(current, pickup, dropoff, dist_to_pickup, dist_pickup_to_dropoff, stops, cycle_used, now) ==
    LET current_time == now
        cumulative_driving0 == cycle_used
        cumulative_duty0 == cycle_used
        schedule0 == <<StartPoint(current, current_time, cycle_used)>>
        \* Drive to pickup location
        drive_time1 == CalculateDriveTime(dist_to_pickup)
        arrival_time1 == current_time + drive_time1
        departure_time1 == arrival_time1 + PICKUP_TIME
        schedule1 == schedule0
                     \o AddDrivingSegment(current, pickup, dist_to_pickup,
                                          current_time, cumulative_driving0,
                                          cumulative_duty0, stops)
        cumulative_driving1 == cumulative_driving0 + drive_time1
        cumulative_duty1 == cumulative_duty0 + drive_time1 + PICKUP_TIME
        schedule2 == Append(schedule1,
                            PickupPoint(pickup, arrival_time1,
                                        departure_time1, dist_to_pickup,
                                        cumulative_driving1,
                                        cumulative_duty1))
        \* Drive to dropoff location
        drive_time2 == CalculateDriveTime(dist_pickup_to_dropoff)
        arrival_time2 == departure_time1 + drive_time2
        departure_time2 == arrival_time2 + DROPOFF_TIME
        \* departure_time has been reassigned before this call reads it
        schedule3 == schedule2
                     \o AddDrivingSegment(pickup, dropoff,
                                          dist_pickup_to_dropoff,
                                          departure_time2, cumulative_driving1,
                                          cumulative_duty1, <<>>)
        cumulative_driving2 == cumulative_driving1 + drive_time2
        cumulative_duty2 == cumulative_duty1 + drive_time2 + DROPOFF_TIME
        schedule4 == Append(schedule3,
                            DropoffPoint(dropoff, arrival_time2,
                                         departure_time2, dist_to_pickup,
                                         dist_pickup_to_dropoff,
                                         cumulative_driving2,
                                         cumulative_duty2))
    IN  IF NeedsOffDuty(cumulative_driving2, cumulative_duty2)
        THEN Append(schedule4,
                    OffDutyPoint(dropoff, departure_time2, dist_to_pickup,
                                 dist_pickup_to_dropoff))
        ELSE schedule4

----------------------------------------------------------------------------
(* Compliance checker and total time                                       *)

\* A violation message: the text of the f-string and the name it embeds.
Violation(limit, name) == [limit |-> limit, at |-> name]

\* PointViolations with the 70-hour test made inclusive.
PointViolationsInclusive70(point) ==
    (IF point.cumulative_driving_hours > MAX_DRIVING_HOURS
     THEN <<Violation("Exceeded 11-hour driving limit", point.location.name)>>
     ELSE <<>>)
    \o (IF point.cumulative_duty_hours > MAX_DUTY_HOURS
        THEN <<Violation("Exceeded 14-hour duty limit", point.location.name)>>
        ELSE <<>>)
    \o (IF point.cumulative_duty_hours >= MAX_70_HOUR_WINDOW
        THEN <<Violation("Exceeded 70-hour/8-day limit",
                         point.location.name)>>
        ELSE <<>>)

\* PointViolations with the 11-hour test inclusive.
PointViolationsInclusive11(point) ==
    (IF point.cumulative_driving_hours >= MAX_DRIVING_HOURS
     THEN <<Violation("Exceeded 11-hour driving limit", point.location.name)>>
     ELSE <<>>)
    \o (IF point.cumulative_duty_hours > MAX_DUTY_HOURS
        THEN <<Violation("Exceeded 14-hour duty limit", point.location.name)>>
        ELSE <<>>)
    \o (IF point.cumulative_duty_hours > MAX_70_HOUR_WINDOW
        THEN <<Violation("Exceeded 70-hour/8-day limit",
                         point.location.name)>>
        ELSE <<>>)

\* PointViolations with the 70-hour test made on the driving counter.
PointViolationsDriving70(point) ==
    (IF point.cumulative_driving_hours > MAX_DRIVING_HOURS
     THEN <<Violation("Exceeded 11-hour driving limit", point.location.name)>>
     ELSE <<>>)
    \o (IF point.cumulative_duty_hours > MAX_DUTY_HOURS
        THEN <<Violation("Exceeded 14-hour duty limit", point.location.name)>>
        ELSE <<>>)
    \o (IF point.cumulative_driving_hours > MAX_70_HOUR_WINDOW
        THEN <<Violation("Exceeded 70-hour/8-day limit",
                         point.location.name)>>
        ELSE <<>>)

\* The three tests made on one point, in the order of the loop body
PointViolations(point) ==
    (IF point.cumulative_driving_hours > MAX_DRIVING_HOURS
     THEN <<Violation("Exceeded 11-hour driving limit", point.location.name)>>
     ELSE <<>>)
    \o (IF point.cumulative_duty_hours > MAX_DUTY_HOURS
        THEN <<Violation("Exceeded 14-hour duty limit", point.location.name)>>
        ELSE <<>>)
    \o (IF point.cumulative_duty_hours > MAX_70_HOUR_WINDOW
        THEN <<Violation("Exceeded 70-hour/8-day limit",
                         point.location.name)>>
        ELSE <<>>)

RECURSIVE CheckViolationsOf(_)
CheckViolationsOf(schedule) ==
    IF schedule = <<>>
    THEN <<>>
    ELSE PointViolations(Head(schedule)) \o CheckViolationsOf(Tail(schedule))

\* CalculateTotalTimeOf ending at the last segment's arrival.
CalculateTotalTimeToLastArrival(schedule) ==
    IF schedule = <<>>
    THEN 0
    ELSE schedule[Len(schedule)].arrival_time - schedule[1].arrival_time

\* (end_time - start_time) in ticks
CalculateTotalTimeOf(schedule) ==
    IF schedule = <<>>
    THEN 0
    ELSE schedule[Len(schedule)].departure_time - schedule[1].arrival_time

----------------------------------------------------------------------------
(* calculate_hos_route / HOSCalculator.calculate_route as a state machine  *)

\* HOSCalculator.__init__
Init ==
    /\ pc = "idle"
    /\ current_location = ""
    /\ pickup_location = ""
    /\ dropoff_location = ""
    /\ current_cycle_used = 0
    /\ location_cache = << >>
    /\ current_loc = NoLocation
    /\ pickup_loc = NoLocation
    /\ dropoff_loc = NoLocation
    /\ distance_to_pickup = 0
    /\ distance_pickup_to_dropoff = 0
    /\ total_distance = 0
    /\ fueling_stops = <<>>
    /\ duty_schedule = <<>>
    /\ violations = <<>>
    /\ total_time = 0
    /\ geocode_log = <<>>
    /\ summary = NoSummary
    /\ request = NoRequest
    /\ response = NoResponse
    /\ previous = NoPrevious

\* Entry of calculate_route: the arguments, and self.current_cycle_used
CalculateRoute ==
    /\ pc = "idle"
    /\ \E c \in CurrentNames, p \in PickupNames, d \in DropoffNames,
          h \in CycleValues :
          /\ current_location' = c
          /\ pickup_location' = p
          /\ dropoff_location' = d
          /\ current_cycle_used' = h
    /\ pc' = "parse_current"
    /\ UNCHANGED <<caller_vars, geocode_log, location_cache, current_loc, pickup_loc, dropoff_loc,
                   distance_to_pickup, distance_pickup_to_dropoff,
                   total_distance, fueling_stops, duty_schedule, violations,
                   total_time>>

\* What the lookup of geocode_location can come to: a first result with
\* coordinates on the grid, a first result whose "lat" is the text "inf", an
\* empty result list, or a failure inside the try block.
GeocodeOutcomes ==
    [kind : {"found"}, pos : Positions]
    \cup [kind : {"non_finite", "empty", "network_error", "http_error",
                  "malformed"},
          pos : {0}]

\* The outcomes open to the resolver for a name: any, unless the preceding
\* call of a repeated request has resolved the name, and then those that
\* give the same coordinates again.
ResolverOutcomes(location_str) ==
    IF previous.called /\ location_str \in DOMAIN previous.location_cache
    THEN {o \in GeocodeOutcomes :
             GeocodeLocation(location_str, o)
                 = previous.location_cache[location_str]}
    ELSE GeocodeOutcomes

\* _parse_location(location_str): the cached Location, or the geocoder's
\* answer, which is then cached.
ParseLocationResult(location_str, loc) ==
    \/ /\ location_str \in DOMAIN location_cache
       /\ loc = location_cache[location_str]
       /\ UNCHANGED <<location_cache, geocode_log>>
    \/ /\ location_str \notin DOMAIN location_cache
       /\ \E outcome \in ResolverOutcomes(location_str) :
             /\ loc = GeocodeLocation(location_str, outcome)
             /\ geocode_log' =
                    Append(geocode_log,
                           [name |-> location_str,
                            found |-> outcome.kind
                                        \in {"found", "non_finite"}])
       /\ location_cache' = location_cache @@ (location_str :> loc)

ParseCurrent ==
    /\ pc = "parse_current"
    /\ ParseLocationResult(current_location, current_loc')
    /\ pc' = "parse_pickup"
    /\ UNCHANGED <<caller_vars, current_location, pickup_location, dropoff_location,
                   current_cycle_used, pickup_loc, dropoff_loc,
                   distance_to_pickup, distance_pickup_to_dropoff,
                   total_distance, fueling_stops, duty_schedule, violations,
                   total_time>>

ParsePickup ==
    /\ pc = "parse_pickup"
    /\ ParseLocationResult(pickup_location, pickup_loc')
    /\ pc' = "parse_dropoff"
    /\ UNCHANGED <<caller_vars, current_location, pickup_location, dropoff_location,
                   current_cycle_used, current_loc, dropoff_loc,
                   distance_to_pickup, distance_pickup_to_dropoff,
                   total_distance, fueling_stops, duty_schedule, violations,
                   total_time>>

ParseDropoff ==
    /\ pc = "parse_dropoff"
    /\ ParseLocationResult(dropoff_location, dropoff_loc')
    /\ pc' = "distances"
    /\ UNCHANGED <<caller_vars, current_location, pickup_location, dropoff_location,
                   current_cycle_used, current_loc, pickup_loc,
                   distance_to_pickup, distance_pickup_to_dropoff,
                   total_distance, fueling_stops, duty_schedule, violations,
                   total_time>>

\* "Calculate distances and times"
CalculateDistances ==
    /\ pc = "distances"
    /\ IF current_loc.finite /\ pickup_loc.finite /\ dropoff_loc.finite
       THEN /\ distance_to_pickup'
                 = CalculateDistance(current_loc, pickup_loc)
            /\ distance_pickup_to_dropoff'
                 = CalculateDistance(pickup_loc, dropoff_loc)
            /\ total_distance'
                 = distance_to_pickup' + distance_pickup_to_dropoff'
            /\ pc' = "fueling"
       ELSE \* math.sin(inf): ValueError, which nothing here catches
            /\ UNCHANGED <<distance_to_pickup, distance_pickup_to_dropoff,
                           total_distance>>
            /\ pc' = "raised"
    /\ UNCHANGED <<caller_vars, geocode_log, current_location,
                   pickup_location, dropoff_location, current_cycle_used,
                   location_cache, current_loc, pickup_loc, dropoff_loc,
                   fueling_stops, duty_schedule, violations, total_time>>

\* "Calculate fueling stops"
CalculateFuelingStops ==
    /\ pc = "fueling"
    /\ fueling_stops' = CalculateFuelingStopsOf(current_loc, pickup_loc,
                                                dropoff_loc)
    /\ pc' = "schedule"
    /\ UNCHANGED <<caller_vars, geocode_log, current_location, pickup_location, dropoff_location,
                   current_cycle_used, location_cache, current_loc,
                   pickup_loc, dropoff_loc, distance_to_pickup,
                   distance_pickup_to_dropoff, total_distance, duty_schedule,
                   violations, total_time>>

\* "Generate duty schedule"; datetime.now() is read here
GenerateDutySchedule ==
    /\ pc = "schedule"
    /\ \E now \in NowValues :
          duty_schedule' =
              GenerateDutyScheduleOf(current_loc, pickup_loc, dropoff_loc,
                                     distance_to_pickup,
                                     distance_pickup_to_dropoff, fueling_stops,
                                     current_cycle_used, now)
    /\ pc' = "violations"
    /\ UNCHANGED <<caller_vars, geocode_log, current_location, pickup_location, dropoff_location,
                   current_cycle_used, location_cache, current_loc,
                   pickup_loc, dropoff_loc, distance_to_pickup,
                   distance_pickup_to_dropoff, total_distance, fueling_stops,
                   violations, total_time>>

\* "Check for violations"
CheckViolations ==
    /\ pc = "violations"
    /\ violations' = CheckViolationsOf(duty_schedule)
    /\ pc' = "total_time"
    /\ UNCHANGED <<caller_vars, geocode_log, current_location, pickup_location, dropoff_location,
                   current_cycle_used, location_cache, current_loc,
                   pickup_loc, dropoff_loc, distance_to_pickup,
                   distance_pickup_to_dropoff, total_distance, fueling_stops,
                   duty_schedule, total_time>>

\* "Calculate total time", then return RouteDetails
CalculateTotalTime ==
    /\ pc = "total_time"
    /\ total_time' = CalculateTotalTimeOf(duty_schedule)
    /\ pc' = "done"
    /\ UNCHANGED <<caller_vars, geocode_log, current_location, pickup_location, dropoff_location,
                   current_cycle_used, location_cache, current_loc,
                   pickup_loc, dropoff_loc, distance_to_pickup,
                   distance_pickup_to_dropoff, total_distance, fueling_stops,
                   duty_schedule, violations>>

Next ==
    \/ CalculateRoute
    \/ ParseCurrent
    \/ ParsePickup
    \/ ParseDropoff
    \/ CalculateDistances
    \/ CalculateFuelingStops
    \/ GenerateDutySchedule
    \/ CheckViolations
    \/ CalculateTotalTime

Spec == Init /\ [][Next]_vars

\* calculate_route has returned its RouteDetails
Done == pc = "done"

----------------------------------------------------------------------------
(* calculate_hos_route called twice with the same arguments                *)

NewCalculatorKeepsCache(cache) == cache

\* self.location_cache = {} of the HOSCalculator that calculate_hos_route
\* constructs, whatever an earlier calculator had cached
NewCalculatorCache(cache) == << >>

\* cycle hours used, for the repeated call
RepeatCycleValues == {0, 8 * TicksPerHour, 70 * TicksPerHour}

\* calculate_hos_route: calculator = HOSCalculator(), then
\* calculator.calculate_route(...) with the arguments
CalculateHosRoute ==
    /\ pc = "idle"
    /\ \E c \in CurrentNames, p \in PickupNames, d \in DropoffNames,
          h \in RepeatCycleValues :
          /\ current_location' = c
          /\ pickup_location' = p
          /\ dropoff_location' = d
          /\ current_cycle_used' = h
    /\ location_cache' = NewCalculatorCache(location_cache)
    /\ pc' = "parse_current"
    /\ UNCHANGED <<caller_vars, geocode_log, current_loc, pickup_loc,
                   dropoff_loc, distance_to_pickup,
                   distance_pickup_to_dropoff, total_distance, fueling_stops,
                   duty_schedule, violations, total_time>>

\* The caller keeps the RouteDetails (and what the resolver answered) and
\* calls calculate_hos_route again with the same four arguments: a second
\* HOSCalculator is constructed and its calculate_route entered.
RepeatCall ==
    /\ pc = "done"
    /\ ~previous.called
    /\ previous' = [called |-> TRUE,
                    location_cache |-> location_cache,
                    total_distance |-> total_distance,
                    total_time |-> total_time,
                    fueling_stops |-> fueling_stops,
                    duty_schedule |-> duty_schedule,
                    violations |-> violations]
    /\ location_cache' = NewCalculatorCache(location_cache)
    /\ geocode_log' = <<>>
    /\ current_loc' = NoLocation
    /\ pickup_loc' = NoLocation
    /\ dropoff_loc' = NoLocation
    /\ distance_to_pickup' = 0
    /\ distance_pickup_to_dropoff' = 0
    /\ total_distance' = 0
    /\ fueling_stops' = <<>>
    /\ duty_schedule' = <<>>
    /\ violations' = <<>>
    /\ total_time' = 0
    /\ pc' = "parse_current"
    /\ UNCHANGED <<current_location, pickup_location, dropoff_location,
                   current_cycle_used, summary, request, response>>

NextTwice ==
    \/ CalculateHosRoute
    \/ RepeatCall
    \/ ParseCurrent
    \/ ParsePickup
    \/ ParseDropoff
    \/ CalculateDistances
    \/ CalculateFuelingStops
    \/ GenerateDutySchedule
    \/ CheckViolations
    \/ CalculateTotalTime

SpecTwice == Init /\ [][NextTwice]_vars

----------------------------------------------------------------------------
(* The calculate-route and route views                                     *)

CharFieldAcceptsBlank(field) == field.given

\* serializers.CharField(max_length=200): required, and not blank
CharFieldIsValid(field) == field.given /\ field.text # ""

\* serializers.FloatField(min_value=0.0, max_value=70.0): required, a
\* number, and within both bounds (inclusive)
FloatFieldIsValid(field) ==
    /\ field.kind = "number"
    /\ field.value >= 0
    /\ field.value <= 70 * TicksPerHour

\* serializer.is_valid() of HOSRouteSerializer and of TripInputSerializer
SerializerIsValid(data) ==
    /\ CharFieldIsValid(data.current_location)
    /\ CharFieldIsValid(data.pickup_location)
    /\ CharFieldIsValid(data.dropoff_location)
    /\ FloatFieldIsValid(data.cycle)

\* Text fields of a request: absent, blank, or one of the place names
TextFields(names) ==
    {TextField(FALSE, ""), TextField(TRUE, "")}
    \cup {TextField(TRUE, name) : name \in names}

\* Cycle-hours fields of a request: absent, no number, and numbers on and
\* off both bounds
CycleFields ==
    {CycleField("missing", 0), CycleField("not_a_number", 0)}
    \cup {CycleField("number", v) :
             v \in {0 - 1, 0, 70 * TicksPerHour, 70 * TicksPerHour + 1}}

RequestsTo(endpoint) ==
    [endpoint : {endpoint},
     current_location : TextFields(CurrentNames),
     pickup_location : TextFields(PickupNames),
     dropoff_location : TextFields(DropoffNames),
     cycle : CycleFields]

\* A view up to its call of calculate_hos_route: the serializer's verdict,
\* then either the 400 Response with serializer.errors or the call with the
\* validated data.
ServeRequest(data) ==
    /\ pc = "idle"
    /\ request' = data
    /\ IF SerializerIsValid(data)
       THEN /\ current_location' = data.current_location.text
            /\ pickup_location' = data.pickup_location.text
            /\ dropoff_location' = data.dropoff_location.text
            /\ current_cycle_used' = data.cycle.value
            /\ location_cache' = NewCalculatorCache(location_cache)
            /\ pc' = "parse_current"
            /\ UNCHANGED response
       ELSE /\ response' = HttpResponse(400, "errors", <<>>, <<>>)
            /\ pc' = "responded"
            /\ UNCHANGED <<current_location, pickup_location,
                           dropoff_location, current_cycle_used,
                           location_cache>>
    /\ UNCHANGED <<summary, previous, geocode_log, current_loc, pickup_loc,
                   dropoff_loc, distance_to_pickup,
                   distance_pickup_to_dropoff, total_distance, fueling_stops,
                   duty_schedule, violations, total_time>>

\* POST to calculate_route (HOSRouteSerializer, field current_cycle_used)
PostCalculateRoute ==
    \E data \in RequestsTo("calculate-route") : ServeRequest(data)

\* POST to route (TripInputSerializer, field cycle_hours)
PostRoute ==
    \E data \in RequestsTo("route") : ServeRequest(data)

engine_vars == <<current_location, pickup_location, dropoff_location,
                 current_cycle_used, location_cache, current_loc, pickup_loc,
                 dropoff_loc, distance_to_pickup, distance_pickup_to_dropoff,
                 total_distance, fueling_stops, duty_schedule, violations,
                 total_time, geocode_log>>

\* calculate_hos_route has returned: the 200 Response built from the
\* RouteDetails
RespondOk ==
    /\ pc = "done"
    /\ response' = HttpResponse(200, "route_details", duty_schedule,
                                violations)
    /\ pc' = "responded"
    /\ UNCHANGED <<engine_vars, summary, request, previous>>

\* except Exception: the 500 Response with the error text
RespondError ==
    /\ pc = "raised"
    /\ response' = HttpResponse(500, "error", <<>>, <<>>)
    /\ pc' = "responded"
    /\ UNCHANGED <<engine_vars, summary, request, previous>>

NextApi ==
    \/ PostCalculateRoute
    \/ PostRoute
    \/ ParseCurrent
    \/ ParsePickup
    \/ ParseDropoff
    \/ CalculateDistances
    \/ CalculateFuelingStops
    \/ GenerateDutySchedule
    \/ CheckViolations
    \/ CalculateTotalTime
    \/ RespondOk
    \/ RespondError

SpecApi == Init /\ [][NextApi]_vars

----------------------------------------------------------------------------
(* _check_violations on its own: any list of RoutePoints                   *)

\* Longest schedule handed to _check_violations on its own
MaxSyntheticLen == 2

\* Points with counters on and off the three limits (11, 14, 70 hours): the
\* checker reads no other field but the location's name.
SyntheticPoints ==
    {RoutePoint(Location(name, 0), 0, 0, "Driving", 0, driving, duty) :
        name \in {"X", "Y"},
        driving \in {11 * TicksPerHour, 12 * TicksPerHour},
        duty \in {14 * TicksPerHour, 15 * TicksPerHour, 70 * TicksPerHour,
                  75 * TicksPerHour}}

SyntheticInit ==
    /\ pc = "synthetic"
    /\ duty_schedule \in
           UNION {[1..n -> SyntheticPoints] : n \in 0..MaxSyntheticLen}
    /\ current_location = ""
    /\ pickup_location = ""
    /\ dropoff_location = ""
    /\ current_cycle_used = 0
    /\ location_cache = << >>
    /\ current_loc = NoLocation
    /\ pickup_loc = NoLocation
    /\ dropoff_loc = NoLocation
    /\ distance_to_pickup = 0
    /\ distance_pickup_to_dropoff = 0
    /\ total_distance = 0
    /\ fueling_stops = <<>>
    /\ violations = <<>>
    /\ total_time = 0
    /\ geocode_log = <<>>
    /\ summary = NoSummary
    /\ request = NoRequest
    /\ response = NoResponse
    /\ previous = NoPrevious

\* self._check_violations(schedule)
CheckSyntheticViolations ==
    /\ pc = "synthetic"
    /\ violations' = CheckViolationsOf(duty_schedule)
    /\ pc' = "checked"
    /\ UNCHANGED <<caller_vars, geocode_log, current_location,
                   pickup_location, dropoff_location, current_cycle_used,
                   location_cache, current_loc, pickup_loc, dropoff_loc,
                   distance_to_pickup, distance_pickup_to_dropoff,
                   total_distance, fueling_stops, duty_schedule, total_time>>

SpecSynthetic == SyntheticInit /\ [][CheckSyntheticViolations]_vars

----------------------------------------------------------------------------
(* get_duty_status_summary on its own: any list of RoutePoints             *)

\* The keys of the summary dict
Statuses == {"Driving", "On Duty", "Sleeper", "Off Duty"}

DurationFromArrival(current, next_point) ==
    next_point.arrival_time - current.arrival_time

\* duration = next_point.arrival_time - current.departure_time
Duration(current, next_point) ==
    next_point.arrival_time - current.departure_time

\* "for i in range(len(schedule) - 1)", entered at list position i with the
\* summary so far
RECURSIVE SummaryLoop(_, _, _)
SummaryLoop(schedule, i, so_far) ==
    IF i > Len(schedule) - 1
    THEN so_far
    ELSE LET current == schedule[i]
             next_point == schedule[i + 1]
             duration == Duration(current, next_point)
         IN  SummaryLoop(schedule, i + 1,
                         [so_far EXCEPT ![current.status] = @ + duration])

GetDutyStatusSummaryOf(schedule) ==
    SummaryLoop(schedule, 1, [s \in Statuses |-> 0])

\* Longest schedule handed to get_duty_status_summary
MaxTimelineLen == 3

\* Points of every status, arriving now or an hour later and staying for no
\* time or half an hour: the summary reads no other field.
TimelinePoints ==
    {RoutePoint(Location("X", 0), arrival, arrival + dwell, status, 0, 0, 0) :
        status \in Statuses,
        arrival \in {0, 1 * TicksPerHour},
        dwell \in {0, TicksPerHour \div 2}}

TimelineInit ==
    /\ pc = "timeline"
    /\ duty_schedule \in
           UNION {[1..n -> TimelinePoints] : n \in 0..MaxTimelineLen}
    /\ current_location = ""
    /\ pickup_location = ""
    /\ dropoff_location = ""
    /\ current_cycle_used = 0
    /\ location_cache = << >>
    /\ current_loc = NoLocation
    /\ pickup_loc = NoLocation
    /\ dropoff_loc = NoLocation
    /\ distance_to_pickup = 0
    /\ distance_pickup_to_dropoff = 0
    /\ total_distance = 0
    /\ fueling_stops = <<>>
    /\ violations = <<>>
    /\ total_time = 0
    /\ geocode_log = <<>>
    /\ summary = NoSummary
    /\ request = NoRequest
    /\ response = NoResponse
    /\ previous = NoPrevious

\* calculator.get_duty_status_summary(schedule)
GetDutyStatusSummary ==
    /\ pc = "timeline"
    /\ summary' = GetDutyStatusSummaryOf(duty_schedule)
    /\ pc' = "summarised"
    /\ UNCHANGED <<engine_vars, request, response, previous>>

SpecSummary == TimelineInit /\ [][GetDutyStatusSummary]_vars

----------------------------------------------------------------------------
(* get_duty_status_summary on the schedule calculate_route returned        *)

\* calculator.get_duty_status_summary(route_details.duty_schedule)
SummariseRoute ==
    /\ pc = "done"
    /\ summary' = GetDutyStatusSummaryOf(duty_schedule)
    /\ pc' = "route_summarised"
    /\ UNCHANGED <<engine_vars, request, response, previous>>

NextRouteSummary ==
    \/ CalculateRoute
    \/ ParseCurrent
    \/ ParsePickup
    \/ ParseDropoff
    \/ CalculateDistances
    \/ CalculateFuelingStops
    \/ GenerateDutySchedule
    \/ CheckViolations
    \/ CalculateTotalTime
    \/ SummariseRoute

SpecRouteSummary == Init /\ [][NextRouteSummary]_vars

----------------------------------------------------------------------------
(* Properties of the returned RouteDetails                                 *)

\* The segments of the schedule by kind, told apart by what the builder
\* stamps on them.
SegmentIndices == 1..Len(duty_schedule)

IsDrivingPoint(p) == p.status = "Driving"

IsFuelPoint(p) ==
    /\ p.status = "On Duty"
    /\ p.departure_time - p.arrival_time = FUEL_DWELL

IsBreakPoint(p) ==
    /\ p.status = "Off Duty"
    /\ p.departure_time - p.arrival_time = BREAK_DURATION

IsRestPoint(p) ==
    /\ p.status = "Off Duty"
    /\ p.departure_time - p.arrival_time = MIN_OFF_DUTY_HOURS

\* C1: in the returned schedule every segment arrives no earlier than the
\* segment before it departs (segments are chronological, non-overlapping).
C1_SegmentsChronological ==
    Done =>
        \A i \in SegmentIndices :
            i + 1 \in SegmentIndices =>
                duty_schedule[i + 1].arrival_time
                    >= duty_schedule[i].departure_time

\* C2: in the returned schedule miles_from_start never decreases from one
\* segment to the next.
C2_MilesNonDecreasing ==
    Done =>
        \A i \in SegmentIndices :
            i + 1 \in SegmentIndices =>
                duty_schedule[i + 1].miles_from_start
                    >= duty_schedule[i].miles_from_start

\* The number of stops planned on the first leg: the stops of fueling_stops
\* after these were planned on the second leg.
StopsOnFirstLeg ==
    Len(StopsToPickup(current_loc, pickup_loc, distance_to_pickup, 0))

\* C3: every planned fuel stop is the location of exactly one segment of the
\* schedule, that segment is On Duty, and its miles_from_start lies between
\* the start and the end of the leg the stop was planned on.  (When a round
\* trip plans two stops at one coordinate, that coordinate is asked to have
\* one segment per stop, one of them inside the stop's leg.)
C3_EveryFuelStopScheduledOnce ==
    Done =>
        \A k \in 1..Len(fueling_stops) :
            LET at == {i \in SegmentIndices :
                          duty_schedule[i].location = fueling_stops[k]}
                same == {j \in 1..Len(fueling_stops) :
                            fueling_stops[j] = fueling_stops[k]}
                leg_start == IF k <= StopsOnFirstLeg
                             THEN 0 ELSE distance_to_pickup
                leg_end == IF k <= StopsOnFirstLeg
                           THEN distance_to_pickup ELSE total_distance
            IN  /\ Cardinality(at) = Cardinality(same)
                /\ \A i \in at : duty_schedule[i].status = "On Duty"
                /\ \E i \in at :
                      /\ duty_schedule[i].miles_from_start >= leg_start
                      /\ duty_schedule[i].miles_from_start <= leg_end

\* The schedule has been built (states after _generate_duty_schedule).
ScheduleBuilt == pc \in {"violations", "total_time", "done"}

\* The fuel stops have been planned (states after _calculate_fueling_stops).
StopsPlanned == pc \in {"schedule", "violations", "total_time", "done"}

\* C4: in every segment of every schedule, cumulative driving hours do not
\* exceed cumulative duty hours.
C4_DrivingWithinDuty ==
    \A i \in SegmentIndices :
        duty_schedule[i].cumulative_driving_hours
            <= duty_schedule[i].cumulative_duty_hours

\* A schedule with a break segment, a fuel-stop segment and the mandatory
\* rest, the break being taken before the fuel stop.
C4_Witness ==
    /\ Done
    /\ \E i, j \in SegmentIndices :
          /\ i < j
          /\ IsBreakPoint(duty_schedule[i])
          /\ IsFuelPoint(duty_schedule[j])
    /\ IsRestPoint(duty_schedule[Len(duty_schedule)])

\* C5: the last segment of the returned schedule is stamped with the total
\* route distance, distance(current, pickup) + distance(pickup, dropoff).
C5_LastSegmentAtTotalDistance ==
    Done =>
        /\ total_distance
             = CalculateDistance(current_loc, pickup_loc)
               + CalculateDistance(pickup_loc, dropoff_loc)
        /\ duty_schedule[Len(duty_schedule)].miles_from_start = total_distance

\* A returned schedule over two legs of nonzero length that ends with the
\* mandatory rest.
C5_Witness ==
    /\ Done
    /\ distance_to_pickup > 0
    /\ distance_pickup_to_dropoff > 0
    /\ IsRestPoint(duty_schedule[Len(duty_schedule)])

\* C6: every segment departs no earlier than it arrives: the first segment
\* and the Driving segments take no time, a break or fuel stop half an hour,
\* pickup and dropoff one hour, the mandatory rest ten hours.
C6_DepartureNotBeforeArrival ==
    \A i \in SegmentIndices :
        LET p == duty_schedule[i]
            dwell == p.departure_time - p.arrival_time
        IN  /\ p.departure_time >= p.arrival_time
            /\ dwell \in {0, TicksPerHour \div 2, TicksPerHour,
                          10 * TicksPerHour}
            /\ (i = 1 \/ p.status = "Driving") => dwell = 0
            /\ p.status = "On Duty"
                 => dwell \in {TicksPerHour \div 2, TicksPerHour}
            /\ (i > 1 /\ p.status = "Off Duty")
                 => dwell \in {TicksPerHour \div 2, 10 * TicksPerHour}

\* A returned schedule holding segments of all four durations.
C6_Witness ==
    /\ Done
    /\ \E i \in SegmentIndices : IsBreakPoint(duty_schedule[i])
    /\ \E i \in SegmentIndices : IsFuelPoint(duty_schedule[i])
    /\ \E i \in SegmentIndices : IsRestPoint(duty_schedule[i])
    /\ \E i \in SegmentIndices : IsDrivingPoint(duty_schedule[i])

\* The number of integers k >= 1 with k * 1000 < L.
StopCount(L) == IF L <= 0 THEN 0 ELSE (L - 1) \div 1000

\* The stops of one leg of length L: fractions k * 1000 / L, k = 1, 2, ...
LegStops(start, end, L) ==
    [k \in 1..StopCount(L) |-> InterpolateLocation(start, end, k * 1000, L)]

\* C7: the planned stops are those of leg 1 followed by those of leg 2, each
\* leg counted from zero: for a leg of length L one stop at fraction
\* k * 1000 / L for each k >= 1 with k * 1000 < L; so none on a leg of at most
\* 1000 miles and none at the end of a leg.
C7_FuelStopsPerLeg ==
    StopsPlanned =>
        /\ fueling_stops
             = LegStops(current_loc, pickup_loc, distance_to_pickup)
               \o LegStops(pickup_loc, dropoff_loc, distance_pickup_to_dropoff)
        /\ (distance_to_pickup <= 1000 /\ distance_pickup_to_dropoff <= 1000)
             => fueling_stops = <<>>
        /\ \A k \in 1..Len(fueling_stops) :
              fueling_stops[k].pos
                  # (IF k <= StopCount(distance_to_pickup)
                     THEN pickup_loc.pos ELSE dropoff_loc.pos)

\* Two legs of exactly 2000 miles: one stop each, at mile 1000 of the leg.
C7_Witness ==
    /\ Done
    /\ distance_to_pickup = 2000
    /\ distance_pickup_to_dropoff = 2000
    /\ Len(fueling_stops) = 2

\* The driving and duty hours carried at dropoff.
CarriedDriving ==
    current_cycle_used + CalculateDriveTime(distance_to_pickup)
        + CalculateDriveTime(distance_pickup_to_dropoff)

CarriedDuty == CarriedDriving + 2 * TicksPerHour

\* C8: the mandatory rest is appended after the dropoff segment iff the
\* driving hours carried at dropoff are >= 11 or the duty hours >= 14; it is
\* then the last segment, Off Duty, at the dropoff, ten hours long from the
\* dropoff segment's departure, with both counters 0; the dropoff segment
\* keeps its carried counters; nothing but zero counters follows a rest.
C8_MandatoryRest ==
    Done =>
        LET n == Len(duty_schedule)
            last == duty_schedule[n]
            rested == last.status = "Off Duty"
            drop == IF rested THEN duty_schedule[n - 1] ELSE last
        IN  /\ n >= 5
            /\ rested <=> (\/ CarriedDriving >= 11 * TicksPerHour
                           \/ CarriedDuty >= 14 * TicksPerHour)
            /\ drop.status = "On Duty"
            /\ drop.location = dropoff_loc
            /\ drop.cumulative_driving_hours = CarriedDriving
            /\ drop.cumulative_duty_hours = CarriedDuty
            /\ rested =>
                  /\ last.location = dropoff_loc
                  /\ last.arrival_time = drop.departure_time
                  /\ last.departure_time
                       = last.arrival_time + 10 * TicksPerHour
                  /\ last.cumulative_driving_hours = 0
                  /\ last.cumulative_duty_hours = 0
            /\ \A i \in SegmentIndices :
                  IsRestPoint(duty_schedule[i]) =>
                      \A j \in SegmentIndices :
                          j > i =>
                              /\ duty_schedule[j].cumulative_driving_hours = 0
                              /\ duty_schedule[j].cumulative_duty_hours = 0

\* The rest is appended with exactly 11 driving hours carried at dropoff
\* (and fewer than 14 duty hours).
C8_Witness ==
    /\ Done
    /\ CarriedDriving = 11 * TicksPerHour
    /\ CarriedDuty < 14 * TicksPerHour
    /\ IsRestPoint(duty_schedule[Len(duty_schedule)])

\* The messages one segment calls for, by limit.
Over11(p) == p.cumulative_driving_hours > 11 * TicksPerHour
Over14(p) == p.cumulative_duty_hours > 14 * TicksPerHour
Over70(p) == p.cumulative_duty_hours > 70 * TicksPerHour

Count(b) == IF b THEN 1 ELSE 0

\* The number of messages called for by the segments before segment i.
RECURSIVE MessagesBefore(_)
MessagesBefore(i) ==
    IF i <= 1
    THEN 0
    ELSE MessagesBefore(i - 1)
         + Count(Over11(duty_schedule[i - 1]))
         + Count(Over14(duty_schedule[i - 1]))
         + Count(Over70(duty_schedule[i - 1]))

\* Message number k of the list is the given message.
MessageAt(k, limit, name) ==
    /\ k <= Len(violations)
    /\ violations[k] = [limit |-> limit, at |-> name]

\* _check_violations has returned (inside calculate_route, or on its own).
ViolationsChecked == pc \in {"total_time", "done", "checked"}

\* C9: the violations are, segment by segment in timeline order, an 11-hour
\* message iff driving > 11, then a 14-hour message iff duty > 14, then a
\* 70-hour message iff duty > 70, each naming the segment's location; nothing
\* is left out or merged, so their number is the sum over the segments.
C9_ViolationsPerSegment ==
    ViolationsChecked =>
        /\ Len(violations) = MessagesBefore(Len(duty_schedule) + 1)
        /\ \A i \in SegmentIndices :
              LET p == duty_schedule[i]
                  base == MessagesBefore(i)
              IN  /\ Over11(p) =>
                        MessageAt(base + 1,
                                  "Exceeded 11-hour driving limit",
                                  p.location.name)
                  /\ Over14(p) =>
                        MessageAt(base + Count(Over11(p)) + 1,
                                  "Exceeded 14-hour duty limit",
                                  p.location.name)
                  /\ Over70(p) =>
                        MessageAt(base + Count(Over11(p)) + Count(Over14(p))
                                    + 1,
                                  "Exceeded 70-hour/8-day limit",
                                  p.location.name)

\* A first segment with 12 driving and 75 duty hours (three messages) and a
\* second with exactly 11 driving and 70 duty hours (the 14-hour message
\* only): four messages in all.
C9_Witness ==
    /\ pc = "checked"
    /\ Len(duty_schedule) = 2
    /\ duty_schedule[1].cumulative_driving_hours = 12 * TicksPerHour
    /\ duty_schedule[1].cumulative_duty_hours = 75 * TicksPerHour
    /\ duty_schedule[2].cumulative_driving_hours = 11 * TicksPerHour
    /\ duty_schedule[2].cumulative_duty_hours = 70 * TicksPerHour
    /\ Len(violations) = 4

\* The first segment with status Driving.
FirstDriving ==
    CHOOSE i \in SegmentIndices :
        /\ IsDrivingPoint(duty_schedule[i])
        /\ \A j \in 1..(i - 1) : ~IsDrivingPoint(duty_schedule[j])

\* C10: with 70 cycle hours used and a leg of nonzero length, the first
\* Driving segment carries more than 70 duty hours and the violations hold
\* the 70-hour message of that segment.
C10_FullCycleViolatesAtFirstDrive ==
    (/\ Done
     /\ current_cycle_used = 70 * TicksPerHour
     /\ (distance_to_pickup > 0 \/ distance_pickup_to_dropoff > 0))
    => LET p == duty_schedule[FirstDriving]
       IN  /\ p.cumulative_duty_hours > 70 * TicksPerHour
           /\ MessageAt(MessagesBefore(FirstDriving) + Count(Over11(p))
                          + Count(Over14(p)) + 1,
                        "Exceeded 70-hour/8-day limit", p.location.name)

\* 70 cycle hours used and a first leg of nonzero length.
C10_Witness ==
    /\ Done
    /\ current_cycle_used = 70 * TicksPerHour
    /\ distance_to_pickup > 0

----------------------------------------------------------------------------
(* Properties of the waypoint resolution                                   *)

\* The place names calculate_route has passed to _parse_location so far
ParsedNames ==
    CASE pc \in {"idle", "parse_current"} -> {}
      [] pc = "parse_pickup" -> {current_location}
      [] pc = "parse_dropoff" -> {current_location, pickup_location}
      [] OTHER -> {current_location, pickup_location, dropoff_location}

\* All three waypoints have been through _parse_location.
WaypointsParsed ==
    pc \notin {"idle", "parse_current", "parse_pickup", "parse_dropoff"}

\* C11: within one calculate_hos_route call the geocoder is called exactly
\* once for each distinct place name parsed so far (so at most three times,
\* and fewer when names coincide); equal names get the same Location; and a
\* call starts with an empty cache, whatever the call before it had cached.
C11_GeocodeOncePerName ==
    /\ Len(geocode_log) = Cardinality(ParsedNames)
    /\ {geocode_log[i].name : i \in 1..Len(geocode_log)} = ParsedNames
    /\ DOMAIN location_cache = ParsedNames
    /\ Len(geocode_log) <= 3
    /\ WaypointsParsed =>
          /\ current_location = pickup_location => current_loc = pickup_loc
          /\ pickup_location = dropoff_location => pickup_loc = dropoff_loc
          /\ current_location = dropoff_location => current_loc = dropoff_loc
    /\ pc = "parse_current" => location_cache = << >>

\* A second call that has resolved three waypoints under two names with two
\* lookups, after a first call that had cached both names.
C11_Witness ==
    /\ previous.called
    /\ DOMAIN previous.location_cache = {"A", "B"}
    /\ pc = "done"
    /\ current_location = pickup_location
    /\ pickup_location # dropoff_location
    /\ Len(geocode_log) = 2

\* The Location of a name whose lookup found no result or failed is the
\* default coordinate.
FallbackIsDefault ==
    \A i \in 1..Len(geocode_log) :
        ~geocode_log[i].found =>
            location_cache[geocode_log[i].name]
                = Location(geocode_log[i].name, DEFAULT_POS)

\* C12: whatever the resolver's outcome for each waypoint, a lookup that
\* fails or finds nothing resolves to the default coordinate, and
\* calculate_route never ends in an exception.
C12_RouteCompletesWhateverTheResolver ==
    /\ FallbackIsDefault
    /\ pc # "raised"

----------------------------------------------------------------------------
(* Properties of the views                                                 *)

\* The request is one the serializers must refuse: a location absent or
\* blank, or cycle hours absent, no number, or outside [0, 70].
RequestRefusable ==
    \/ \E f \in {request.current_location, request.pickup_location,
                 request.dropoff_location} : ~f.given \/ f.text = ""
    \/ request.cycle.kind # "number"
    \/ request.cycle.value < 0
    \/ request.cycle.value > 70 * TicksPerHour

\* calculate_hos_route has been invoked for the request.
EngineInvoked ==
    \/ pc \notin {"idle", "responded"}
    \/ geocode_log # <<>>
    \/ location_cache # << >>

\* C13: in both endpoints a request with a location absent or blank or with
\* cycle hours absent or outside [0, 70] is answered 400 without
\* calculate_hos_route being invoked (no lookup, nothing computed); the
\* engine is invoked only for valid requests, which are answered 200 with
\* the result, or 500 carrying no part of a result when the engine raised.
C13_ValidationBeforeComputation ==
    /\ EngineInvoked => ~RequestRefusable
    /\ pc = "responded" =>
          /\ response.status = 400 <=> RequestRefusable
          /\ response.status = 400 =>
                /\ ~EngineInvoked
                /\ duty_schedule = <<>>
                /\ fueling_stops = <<>>
                /\ response.kind = "errors"
          /\ response.status \in {200, 400, 500}
          /\ response.status = 500 =>
                /\ response.kind = "error"
                /\ response.duty_schedule = <<>>
                /\ response.violations = <<>>
                /\ duty_schedule = <<>>
          /\ response.status = 200 =>
                /\ response.kind = "route_details"
                /\ response.duty_schedule = duty_schedule
                /\ Len(duty_schedule) >= 5
    /\ pc # "responded" => response = NoResponse

\* The route endpoint has answered 400 to a request whose only fault is
\* cycle hours just above 70.
C13_Witness ==
    /\ pc = "responded"
    /\ response.status = 400
    /\ request.endpoint = "route"
    /\ request.cycle = CycleField("number", 70 * TicksPerHour + 1)
    /\ request.current_location = TextField(TRUE, "A")
    /\ request.pickup_location = TextField(TRUE, "B")
    /\ request.dropoff_location = TextField(TRUE, "C")
    /\ ~EngineInvoked

----------------------------------------------------------------------------
(* Properties of a repeated call                                           *)

\* The second of two calls with the same arguments has returned.
RepeatDone == previous.called /\ pc = "done"

\* What a segment says apart from its two timestamps
Untimed(p) ==
    [location |-> p.location, status |-> p.status,
     miles_from_start |-> p.miles_from_start,
     cumulative_driving_hours |-> p.cumulative_driving_hours,
     cumulative_duty_hours |-> p.cumulative_duty_hours]

\* C14: a second call with the same arguments and a resolver giving the same
\* coordinates returns the same total_distance, total_time, fueling_stops
\* and violations, and a schedule of the same length whose segments agree on
\* everything but the timestamps, which are the same offsets from the arrival
\* of the first segment in both runs.
C14_RepeatedCallSameResult ==
    RepeatDone =>
        LET first == previous.duty_schedule
            second == duty_schedule
        IN  /\ total_distance = previous.total_distance
            /\ total_time = previous.total_time
            /\ fueling_stops = previous.fueling_stops
            /\ violations = previous.violations
            /\ Len(second) = Len(first)
            /\ \A i \in 1..Len(second) :
                  /\ i <= Len(first)
                  /\ Untimed(second[i]) = Untimed(first[i])
                  /\ second[i].arrival_time - second[1].arrival_time
                       = first[i].arrival_time - first[1].arrival_time
                  /\ second[i].departure_time - second[1].arrival_time
                       = first[i].departure_time - first[1].arrival_time

\* The two runs started at different times on a trip with fuel stops,
\* a break, violations and the mandatory rest.
C14_Witness ==
    /\ RepeatDone
    /\ duty_schedule[1].arrival_time # previous.duty_schedule[1].arrival_time
    /\ Len(fueling_stops) >= 2
    /\ Len(violations) >= 1
    /\ \E i \in SegmentIndices : IsBreakPoint(duty_schedule[i])
    /\ IsRestPoint(duty_schedule[Len(duty_schedule)])

----------------------------------------------------------------------------
(* Properties of the legs of the schedule                                  *)

DrivingIndices == {i \in SegmentIndices : IsDrivingPoint(duty_schedule[i])}

\* The schedule has its two Driving segments, each followed by a segment.
TwoLegs ==
    /\ Cardinality(DrivingIndices) = 2
    /\ \A i \in DrivingIndices : i >= 2 /\ i < Len(duty_schedule)

\* The Driving segment that ends leg 1 and the one that ends leg 2
LegEnd(leg) ==
    IF leg = 1
    THEN CHOOSE i \in DrivingIndices : \A j \in DrivingIndices : i <= j
    ELSE CHOOSE i \in DrivingIndices : \A j \in DrivingIndices : j <= i

\* The first segment of a leg: after the start segment, after the pickup
LegBegin(leg) == IF leg = 1 THEN 2 ELSE LegEnd(1) + 2

LegDistance(leg) ==
    IF leg = 1 THEN distance_to_pickup ELSE distance_pickup_to_dropoff

LegStart(leg) == IF leg = 1 THEN current_loc ELSE pickup_loc

\* The counters the caller hands to _add_driving_segment for a leg
LegCarriedDriving(leg) ==
    IF leg = 1
    THEN current_cycle_used
    ELSE current_cycle_used + CalculateDriveTime(distance_to_pickup)

LegCarriedDuty(leg) ==
    IF leg = 1
    THEN current_cycle_used
    ELSE current_cycle_used + CalculateDriveTime(distance_to_pickup)
             + 1 * TicksPerHour

LegFuelIndices(leg) ==
    {i \in LegBegin(leg)..LegEnd(leg) : IsFuelPoint(duty_schedule[i])}

LegBreakIndices(leg) ==
    {i \in LegBegin(leg)..LegEnd(leg) : IsBreakPoint(duty_schedule[i])}

\* C15 for one leg
BreakOnEntry(leg) ==
    LET begin == LegBegin(leg)
        needed == LegCarriedDriving(leg) >= 8 * TicksPerHour
        break == duty_schedule[begin]
        driving == duty_schedule[LegEnd(leg)]
        drive_time == CalculateDriveTime(LegDistance(leg))
        after_break == LegCarriedDuty(leg) + TicksPerHour \div 2
    IN  /\ needed <=> LegBreakIndices(leg) # {}
        /\ LegBreakIndices(leg) \subseteq {begin}
        /\ needed =>
              /\ break.status = "Off Duty"
              /\ break.departure_time - break.arrival_time
                   = TicksPerHour \div 2
              /\ break.location = LegStart(leg)
              /\ driving.cumulative_driving_hours = drive_time
              /\ driving.cumulative_duty_hours
                   = after_break + drive_time
                       + Cardinality(LegFuelIndices(leg)) * FUEL_DWELL
              /\ \A i \in (begin + 1)..LegEnd(leg) :
                    /\ duty_schedule[i].cumulative_duty_hours >= after_break
                    /\ duty_schedule[i].cumulative_driving_hours
                         <= duty_schedule[i].cumulative_duty_hours
                              - after_break
        /\ ~needed =>
              /\ driving.cumulative_driving_hours
                   = LegCarriedDriving(leg) + drive_time
              /\ driving.cumulative_duty_hours
                   = LegCarriedDuty(leg) + drive_time
                       + Cardinality(LegFuelIndices(leg)) * FUEL_DWELL

\* C15: on each leg a break segment exists iff the driving hours carried
\* into the leg are >= 8; it is then the leg's first segment, Off Duty for
\* half an hour at the leg's start; the segments after it count driving from
\* zero and duty from the carried duty plus half an hour; and no later
\* segment of the leg is a break, however long the leg and its fuel stops.
C15_BreakOnLegEntry ==
    ScheduleBuilt => (TwoLegs /\ BreakOnEntry(1) /\ BreakOnEntry(2))

\* Exactly 8 driving hours carried into a first leg with fuel stops: the
\* break is taken, before the fuel stops.
C15_Witness ==
    /\ Done
    /\ current_cycle_used = 8 * TicksPerHour
    /\ distance_to_pickup >= 2000
    /\ IsBreakPoint(duty_schedule[2])
    /\ LegFuelIndices(1) # {}

\* The driving counter a leg starts from: zero after a break
LegBaseDriving(leg) ==
    IF LegCarriedDriving(leg) >= 8 * TicksPerHour
    THEN 0
    ELSE LegCarriedDriving(leg)

\* C16: every fuel-stop segment of a leg is stamped with its stop's distance
\* from the leg's start, which is less than the leg's distance, and with the
\* driving time from the leg's start to the stop added to the leg's driving
\* counter; so the distance left for the leg's Driving segment is not
\* negative.
C16_FuelStepsIncremental ==
    (ScheduleBuilt /\ TwoLegs) =>
        \A leg \in {1, 2} :
            \A i \in LegFuelIndices(leg) :
                LET p == duty_schedule[i]
                    from_start == CalculateDistance(LegStart(leg), p.location)
                IN  /\ p.miles_from_start = from_start
                    /\ p.miles_from_start < LegDistance(leg)
                    /\ LegDistance(leg) - p.miles_from_start >= 0
                    /\ p.cumulative_driving_hours
                         = LegBaseDriving(leg) + CalculateDriveTime(from_start)

\* The segment after a leg's Driving segment
HandlingPoint(leg) == duty_schedule[LegEnd(leg) + 1]

\* C17: each leg's Driving segment is followed by an On Duty segment of one
\* hour at the same location (pickup, then dropoff); the pickup segment
\* carries driving c + d1/55 and duty c + d1/55 + 1, the dropoff segment
\* driving c + (d1+d2)/55 and duty c + (d1+d2)/55 + 2, with or without
\* breaks and fuel stops inside the legs.
C17_HandlingSegments ==
    ScheduleBuilt =>
        /\ TwoLegs
        /\ \A leg \in {1, 2} :
              LET h == HandlingPoint(leg)
              IN  /\ h.status = "On Duty"
                  /\ h.location = duty_schedule[LegEnd(leg)].location
                  /\ h.departure_time - h.arrival_time = 1 * TicksPerHour
        /\ HandlingPoint(1).location = pickup_loc
        /\ HandlingPoint(2).location = dropoff_loc
        /\ HandlingPoint(1).cumulative_driving_hours
             = current_cycle_used + (distance_to_pickup * TicksPerHour) \div 55
        /\ HandlingPoint(1).cumulative_duty_hours
             = current_cycle_used + (distance_to_pickup * TicksPerHour) \div 55
                 + 1 * TicksPerHour
        /\ HandlingPoint(2).cumulative_driving_hours
             = current_cycle_used
                 + (total_distance * TicksPerHour) \div 55
        /\ HandlingPoint(2).cumulative_duty_hours
             = current_cycle_used
                 + (total_distance * TicksPerHour) \div 55
                 + 2 * TicksPerHour

\* Both legs took a break and the first also fuel stops, so that the
\* Driving segments' counters differ from the handling segments'.
C17_Witness ==
    /\ Done
    /\ LegBreakIndices(1) # {}
    /\ LegBreakIndices(2) # {}
    /\ LegFuelIndices(1) # {}
    /\ duty_schedule[LegEnd(1)].cumulative_driving_hours
         # HandlingPoint(1).cumulative_driving_hours
    /\ distance_pickup_to_dropoff > 0

LegEndpoint(leg) == IF leg = 1 THEN pickup_loc ELSE dropoff_loc

\* C18: a leg of zero length plans no fuel stop on it and still has its one
\* Driving segment, at the leg's endpoint, with arrival equal to departure,
\* zero miles and no driving time added to the leg's counters, followed by
\* the handling segment; no step of the computation fails on it.
C18_ZeroLengthLegs ==
    /\ (StopsPlanned /\ total_distance = 0) => fueling_stops = <<>>
    /\ ScheduleBuilt =>
          /\ TwoLegs
          /\ \A leg \in {1, 2} :
                LegDistance(leg) = 0 =>
                    LET p == duty_schedule[LegEnd(leg)]
                    IN  /\ p.location = LegEndpoint(leg)
                        /\ p.arrival_time = p.departure_time
                        /\ p.miles_from_start = 0
                        /\ p.cumulative_driving_hours = LegBaseDriving(leg)
                        /\ p.cumulative_duty_hours
                             = LegCarriedDuty(leg)
                                 + Cardinality(LegBreakIndices(leg))
                                     * BREAK_DURATION
                        /\ LegFuelIndices(leg) = {}
                        /\ HandlingPoint(leg).status = "On Duty"
                        /\ HandlingPoint(leg).location = LegEndpoint(leg)
    /\ pc = "raised" =>
          ~(current_loc.finite /\ pickup_loc.finite /\ dropoff_loc.finite)

\* Both legs of zero length and entered with 8 driving hours carried (so
\* each with a break before its zero-length Driving segment).
C18_Witness ==
    /\ Done
    /\ distance_to_pickup = 0
    /\ distance_pickup_to_dropoff = 0
    /\ current_cycle_used = 8 * TicksPerHour
    /\ Len(duty_schedule) = 7

\* C19: every schedule is, in order: the start segment (Off Duty, no
\* duration, at the current location, miles 0, both counters equal to
\* current_cycle_used); leg 1 (at most one break, first; then fuel-stop
\* segments; then its Driving segment at pickup); the pickup handling
\* segment; leg 2 (at most one break, then its Driving segment at dropoff, no
\* fuel-stop segment); the dropoff handling segment; and at most the
\* mandatory rest.  So there are exactly two Driving segments, each followed
\* by a handling segment at the same location, and no Sleeper segment.
C19_ScheduleShape ==
    ScheduleBuilt =>
        LET n == Len(duty_schedule)
            start == duty_schedule[1]
        IN  /\ n >= 5
            /\ start.status = "Off Duty"
            /\ start.departure_time = start.arrival_time
            /\ start.location = current_loc
            /\ start.miles_from_start = 0
            /\ start.cumulative_driving_hours = current_cycle_used
            /\ start.cumulative_duty_hours = current_cycle_used
            /\ TwoLegs
            /\ \A i \in 2..(LegEnd(1) - 1) :
                  \/ i = 2 /\ IsBreakPoint(duty_schedule[i])
                  \/ IsFuelPoint(duty_schedule[i])
            /\ duty_schedule[LegEnd(1)].location = pickup_loc
            /\ HandlingPoint(1).status = "On Duty"
            /\ HandlingPoint(1).location = pickup_loc
            /\ HandlingPoint(1).departure_time - HandlingPoint(1).arrival_time
                 = PICKUP_TIME
            /\ LegEnd(2) \in {LegBegin(2), LegBegin(2) + 1}
            /\ LegEnd(2) = LegBegin(2) + 1
                  => IsBreakPoint(duty_schedule[LegBegin(2)])
            /\ LegFuelIndices(2) = {}
            /\ duty_schedule[LegEnd(2)].location = dropoff_loc
            /\ HandlingPoint(2).status = "On Duty"
            /\ HandlingPoint(2).location = dropoff_loc
            /\ HandlingPoint(2).departure_time - HandlingPoint(2).arrival_time
                 = DROPOFF_TIME
            /\ n \in {LegEnd(2) + 1, LegEnd(2) + 2}
            /\ n = LegEnd(2) + 2 => IsRestPoint(duty_schedule[n])
            /\ \A i \in SegmentIndices :
                  duty_schedule[i].status \in {"Off Duty", "On Duty", "Driving"}

\* A schedule with every optional part, and a second leg of more than
\* 1000 miles: break and fuel stops on leg 1, break on leg 2, and the rest.
C19_Witness ==
    /\ Done
    /\ current_cycle_used = 8 * TicksPerHour
    /\ IsBreakPoint(duty_schedule[2])
    /\ LegFuelIndices(1) # {}
    /\ LegBreakIndices(2) # {}
    /\ distance_pickup_to_dropoff > 1000
    /\ IsRestPoint(duty_schedule[Len(duty_schedule)])

----------------------------------------------------------------------------
(* Properties of the duty status summary                                   *)

\* The gaps that follow the segments of one status, from list position i on
RECURSIVE GapsAfter(_, _)
GapsAfter(status, i) ==
    IF i >= Len(duty_schedule)
    THEN 0
    ELSE (IF duty_schedule[i].status = status
          THEN duty_schedule[i + 1].arrival_time
                   - duty_schedule[i].departure_time
          ELSE 0)
         + GapsAfter(status, i + 1)

\* C20: the summary has exactly the keys Driving, On Duty, Sleeper and
\* Off Duty, and each status's total is the sum, over the adjacent pairs
\* whose first segment has that status, of the next segment's arrival minus
\* that segment's departure; so the last segment and a segment's own dwell
\* add nothing, and a schedule of fewer than two segments gives all zeros.
C20_SummaryOfGaps ==
    pc = "summarised" =>
        /\ DOMAIN summary = {"Driving", "On Duty", "Sleeper", "Off Duty"}
        /\ \A status \in DOMAIN summary :
              summary[status] = GapsAfter(status, 1)
        /\ Len(duty_schedule) <= 1 =>
              \A status \in DOMAIN summary : summary[status] = 0
        /\ Len(duty_schedule) = 2 =>
              \A status \in DOMAIN summary :
                  summary[status]
                    = IF duty_schedule[1].status = status
                      THEN duty_schedule[2].arrival_time
                               - duty_schedule[1].arrival_time
                               - (duty_schedule[1].departure_time
                                    - duty_schedule[1].arrival_time)
                      ELSE 0

\* Two Driving segments and a last segment of another status: Driving
\* totals its two gaps (an hour, and minus half an hour as the third segment
\* arrives before the second departs), the other statuses nothing.
C20_Witness ==
    /\ pc = "summarised"
    /\ Len(duty_schedule) = 3
    /\ duty_schedule[1].status = "Driving"
    /\ duty_schedule[2].status = "Driving"
    /\ duty_schedule[3].status = "Sleeper"
    /\ duty_schedule[1].arrival_time = 0
    /\ duty_schedule[1].departure_time = 0
    /\ duty_schedule[2].arrival_time = 1 * TicksPerHour
    /\ duty_schedule[2].departure_time = 1 * TicksPerHour + TicksPerHour \div 2
    /\ duty_schedule[3].arrival_time = 1 * TicksPerHour
    /\ duty_schedule[3].departure_time > duty_schedule[3].arrival_time
    /\ summary["Driving"] = TicksPerHour \div 2
    /\ summary["Sleeper"] = 0

----------------------------------------------------------------------------
(* Properties of the whole trip                                            *)

\* calculate_route has checked the schedule it built.
RouteChecked == pc \in {"total_time", "done"}

\* The segments that exceed a limit
FlaggedIndices ==
    {i \in SegmentIndices :
        \/ Over11(duty_schedule[i])
        \/ Over14(duty_schedule[i])
        \/ Over70(duty_schedule[i])}

\* C21: the violations list of a trip is empty iff the cycle hours used plus
\* the drive time of both legs is at most 11 hours; and when it is more, a
\* segment is flagged although the schedule ends with the mandatory rest.
C21_ViolationFreeIffWithinEleven ==
    RouteChecked =>
        /\ violations = <<>>
              <=> current_cycle_used
                    + ((distance_to_pickup + distance_pickup_to_dropoff)
                         * TicksPerHour) \div 55
                    <= 11 * TicksPerHour
        /\ violations = <<>> <=> FlaggedIndices = {}
        /\ current_cycle_used
             + ((distance_to_pickup + distance_pickup_to_dropoff)
                  * TicksPerHour) \div 55
             > 11 * TicksPerHour
           => /\ FlaggedIndices # {}
              /\ IsRestPoint(duty_schedule[Len(duty_schedule)])
              /\ Len(duty_schedule) \notin FlaggedIndices

\* A trip that ends at exactly 11 driving hours (no violation), reached
\* only by driving: 250 miles on top of 11 hours less 250 miles' drive.
C21_Witness ==
    /\ Done
    /\ current_cycle_used = 11 * TicksPerHour - 500
    /\ total_distance = 250
    /\ violations = <<>>
    /\ IsRestPoint(duty_schedule[Len(duty_schedule)])

\* The schedule ends with the mandatory rest.
RestAppended ==
    /\ Len(duty_schedule) >= 1
    /\ IsRestPoint(duty_schedule[Len(duty_schedule)])

\* C22: total_time is the last segment's departure minus the first
\* segment's arrival, and equals the drive time of both legs plus the two
\* handling hours, plus ten hours exactly when the mandatory rest is
\* appended; breaks and fuel dwells inside the legs add nothing to it.
C22_TotalTime ==
    Done =>
        /\ Len(duty_schedule) >= 1
        /\ total_time
             = duty_schedule[Len(duty_schedule)].departure_time
                 - duty_schedule[1].arrival_time
        /\ total_time
             = (distance_to_pickup * TicksPerHour) \div 55
                 + (distance_pickup_to_dropoff * TicksPerHour) \div 55
                 + 2 * TicksPerHour
                 + (IF RestAppended THEN 10 * TicksPerHour ELSE 0)
        /\ RestAppended
              <=> (\/ CarriedDriving >= 11 * TicksPerHour
                   \/ CarriedDuty >= 14 * TicksPerHour)

\* A trip with a break on each leg, fuel stops on the first (two hours of
\* dwell inside the legs at least) and the rest: total_time is the drive
\* time plus two handling hours plus ten hours of rest.
C22_Witness ==
    /\ Done
    /\ TwoLegs
    /\ LegBreakIndices(1) # {}
    /\ LegBreakIndices(2) # {}
    /\ Cardinality(LegFuelIndices(1)) >= 2
    /\ RestAppended
    /\ total_time
         = (total_distance * TicksPerHour) \div 55 + 12 * TicksPerHour

\* C23: at each leg endpoint the handling segment arrives when the Driving
\* segment before it arrives, carries the same driving hours, and carries
\* that segment's duty hours plus the handling hour.
C23_HandlingConsistentWithDriving ==
    (ScheduleBuilt /\ TwoLegs) =>
        \A leg \in {1, 2} :
            LET driving == duty_schedule[LegEnd(leg)]
                handling == HandlingPoint(leg)
            IN  /\ handling.arrival_time = driving.arrival_time
                /\ handling.cumulative_driving_hours
                     = driving.cumulative_driving_hours
                /\ handling.cumulative_duty_hours
                     = driving.cumulative_duty_hours + 1 * TicksPerHour

\* C24: a break segment opens leg 2 iff the cycle hours used plus the drive
\* time of leg 1 is >= 8, a break inside leg 1 notwithstanding: the leg-2
\* break is stamped with that carried driving counter, and whenever leg 1
\* opens with a break so does leg 2, whatever the length of leg 1.
C24_SecondLegBreakFromCarried ==
    ScheduleBuilt =>
        /\ TwoLegs
        /\ LegBreakIndices(2) # {}
              <=> current_cycle_used
                    + (distance_to_pickup * TicksPerHour) \div 55
                    >= 8 * TicksPerHour
        /\ LegBreakIndices(2) # {} =>
              LET break == duty_schedule[LegEnd(1) + 2]
              IN  /\ IsBreakPoint(break)
                  /\ break.location = pickup_loc
                  /\ break.cumulative_driving_hours
                       = current_cycle_used
                           + (distance_to_pickup * TicksPerHour) \div 55
        /\ IsBreakPoint(duty_schedule[2]) => LegBreakIndices(2) # {}
        /\ current_cycle_used >= 8 * TicksPerHour =>
              /\ IsBreakPoint(duty_schedule[2])
              /\ LegBreakIndices(2) # {}

\* Leg 1 of zero length opened with a break at exactly 8 hours used: leg 2
\* opens with a break too, stamped with 8 driving hours.
C24_Witness ==
    /\ Done
    /\ current_cycle_used = 8 * TicksPerHour
    /\ distance_to_pickup = 0
    /\ distance_pickup_to_dropoff > 0
    /\ IsBreakPoint(duty_schedule[2])
    /\ IsBreakPoint(duty_schedule[5])
    /\ duty_schedule[5].cumulative_driving_hours = 8 * TicksPerHour

----------------------------------------------------------------------------
(* Properties of the summary of a computed trip                            *)

RouteSummarised == pc = "route_summarised"

\* C25: in the summary of every schedule calculate_route returns, the
\* Driving total is negative, at most minus one hour: each Driving segment
\* has no duration, leg 1's is followed by a handling segment that arrives
\* no later than it departs, and leg 2's by one that arrives at least an hour
\* before it departs; the drive time shows in the Off Duty and On Duty
\* totals.
C25_DrivingTotalNegative ==
    RouteSummarised =>
        /\ TwoLegs
        /\ \A leg \in {1, 2} :
              duty_schedule[LegEnd(leg)].departure_time
                = duty_schedule[LegEnd(leg)].arrival_time
        /\ HandlingPoint(1).arrival_time
             <= duty_schedule[LegEnd(1)].departure_time
        /\ HandlingPoint(2).arrival_time
             <= duty_schedule[LegEnd(2)].departure_time - 1 * TicksPerHour
        /\ summary["Driving"]
             = (HandlingPoint(1).arrival_time
                  - duty_schedule[LegEnd(1)].departure_time)
               + (HandlingPoint(2).arrival_time
                    - duty_schedule[LegEnd(2)].departure_time)
        /\ summary["Driving"] <= 0 - 1 * TicksPerHour
        /\ summary["Sleeper"] = 0
        /\ summary["Off Duty"] + summary["On Duty"]
             >= (distance_to_pickup * TicksPerHour) \div 55
                  + (distance_pickup_to_dropoff * TicksPerHour) \div 55

\* A trip with no break and no fuel stop whose second leg has no length:
\* the Driving total is exactly minus one hour, the handling hour at dropoff.
C25_Witness ==
    /\ RouteSummarised
    /\ current_cycle_used = 0
    /\ distance_to_pickup = 250
    /\ distance_pickup_to_dropoff = 0
    /\ summary["Driving"] = 0 - 1 * TicksPerHour
    /\ summary["Off Duty"] = 500

====
